---- MODULE Spec2Model ----
(***************************************************************************)
(* WIC Performance Analyzer (src/analyze-performance.py).                  *)
(*                                                                         *)
(* A log line is a sequence of atoms: the literals "Completed: ", " in "   *)
(* and "ms", single digits, ".", and other text.  A duration is an integer *)
(* number of tenths of a millisecond (the log texts drawn here carry at    *)
(* most one fractional digit), a mean is the pair <<sum, count>>.          *)
(***************************************************************************)
EXTENDS Integers, Sequences, FiniteSets, TLC

VARIABLES
    pc,           \* position in main / in the function applied
    log,          \* the lines of log_content consumed by the loop of parse_logs
    operations,   \* the insertion-ordered mapping: a sequence of [op, times]
    sorted_ops,   \* the local sorted_ops of analyze_operations
    stdev_args,   \* the arguments statistics.stdev was called with
    out,          \* what was printed to stdout, in order
    ms            \* the argument of format_time when it is applied on its own

vars == <<pc, log, operations, sorted_ops, stdev_args, out, ms>>

\* ---------------------------------------------------------------- bounds
MaxLines == 3
MaxOps == 6
MaxFormatTenths == 15000
MaxFormatDen == 3

\* ------------------------------------------------------ program constants
TopN == 15
BottleneckLimit == 5
BottleneckMs == 100
FastMs == 10

\* ------------------------------------------------------------ arithmetic
Min(a, b) == IF a < b THEN a ELSE b

RECURSIVE SumSeq(_)
SumSeq(s) == IF s = <<>> THEN 0 ELSE s[1] + SumSeq(Tail(s))

RECURSIVE MinSeq(_)
MinSeq(s) == IF Len(s) = 1 THEN s[1] ELSE Min(s[1], MinSeq(Tail(s)))

RECURSIVE MaxSeq(_)
MaxSeq(s) == IF Len(s) = 1 THEN s[1]
             ELSE LET m == MaxSeq(Tail(s)) IN IF s[1] > m THEN s[1] ELSE m

\* p/q rounded to the nearest integer, ties to even: what the format
\* specifications .1f and .2f do to the value they are given.  (Python
\* rounds the binary float, so an exact tie of p/q may go either way there;
\* the properties below hold for both directions.)
RoundHalfEven(p, q) ==
    LET f == p \div q
        r == p % q
    IN  IF 2 * r < q THEN f
        ELSE IF 2 * r > q THEN f + 1
        ELSE IF f % 2 = 0 THEN f ELSE f + 1

\* ------------------------------------------------------------- the parser
Digits == {"0", "1", "2", "3", "4", "5", "6", "7", "8", "9"}

DigitVal(c) ==
    CASE c = "0" -> 0 [] c = "1" -> 1 [] c = "2" -> 2 [] c = "3" -> 3
      [] c = "4" -> 4 [] c = "5" -> 5 [] c = "6" -> 6 [] c = "7" -> 7
      [] c = "8" -> 8 [] c = "9" -> 9 [] OTHER -> 0

\* [0-9.]
IsNumChar(c) == c \in Digits \cup {"."}

\* The last index of the longest run of [0-9.] atoms that starts at i
\* (i - 1 when line[i] is none): the greedy [0-9.]+ of completed_pattern.
RECURSIVE NumEnd(_, _)
NumEnd(line, i) ==
    IF i <= Len(line) /\ IsNumChar(line[i]) THEN NumEnd(line, i + 1) ELSE i - 1

\* " in ([0-9.]+)ms" matches at atom j.
TailAt(line, j) ==
    /\ line[j] = " in "
    /\ NumEnd(line, j + 1) > j
    /\ NumEnd(line, j + 1) < Len(line)
    /\ line[NumEnd(line, j + 1) + 1] = "ms"

NoMatch == [matched |-> FALSE, operation |-> <<>>, num |-> <<>>]

\* The first atom from j on at which " in ([0-9.]+)ms" matches, 0 if none:
\* the end of the shortest group 1 (.*?).
RECURSIVE FirstTail(_, _)
FirstTail(line, j) ==
    IF j > Len(line) THEN 0
    ELSE IF TailAt(line, j) THEN j
    ELSE FirstTail(line, j + 1)

\* The first atom from s on at which completed_pattern matches, 0 if none.
RECURSIVE FirstStart(_, _)
FirstStart(line, s) ==
    IF s > Len(line) THEN 0
    ELSE IF line[s] = "Completed: " /\ FirstTail(line, s + 1) # 0 THEN s
    ELSE FirstStart(line, s + 1)

\* The match with "Completed: " at atom s and " in " at atom j.
MatchAt(line, s, j) ==
    [matched   |-> TRUE,
     operation |-> SubSeq(line, s + 1, j - 1),
     num       |-> SubSeq(line, j + 1, NumEnd(line, j + 1))]

\* re.search(completed_pattern, line): the leftmost match, the shortest
\* group 1, the longest group 2.
re_search(line) ==
    IF FirstStart(line, 1) = 0 THEN NoMatch
    ELSE MatchAt(line, FirstStart(line, 1), FirstTail(line, FirstStart(line, 1) + 1))

RECURSIVE IntVal(_)
IntVal(ds) == IF ds = <<>> THEN 0
              ELSE IntVal(SubSeq(ds, 1, Len(ds) - 1)) * 10 + DigitVal(ds[Len(ds)])

\* float(text), in tenths of a millisecond.
float(text) ==
    LET dots == {i \in 1..Len(text) : text[i] = "."}
        dot  == IF dots = {} THEN Len(text) + 1 ELSE CHOOSE i \in dots : TRUE
        frac == SubSeq(text, dot + 1, Len(text))
    IN  IntVal(SubSeq(text, 1, dot - 1)) * 10
          + (IF frac = <<>> THEN 0 ELSE DigitVal(frac[1]))

HasKey(ops, operation) == \E i \in 1..Len(ops) : ops[i].op = operation

KeyIndex(ops, operation) == CHOOSE i \in 1..Len(ops) : ops[i].op = operation

\* A mutation of float_raises: only a text without a digit is refused.
float_raises_no_digit(text) == \A i \in 1..Len(text) : text[i] = "."

\* float(text) raises ValueError: text of [0-9.]+ is a float literal when it
\* has at most one "." and at least one digit.
float_raises(text) ==
    \/ Cardinality({i \in 1..Len(text) : text[i] = "."}) > 1
    \/ \A i \in 1..Len(text) : text[i] = "."

\* A mutation of the append: a zero duration is dropped after the
\* defaultdict has created the key.
defaultdict_append_nonzero(ops, operation, time_ms) ==
    IF HasKey(ops, operation)
    THEN IF time_ms = 0 THEN ops
         ELSE [ops EXCEPT ![KeyIndex(ops, operation)].times = Append(@, time_ms)]
    ELSE Append(ops, [op |-> operation,
                      times |-> IF time_ms = 0 THEN <<>> ELSE <<time_ms>>])

\* A mutation of the append: the duration goes to the front of the list.
defaultdict_prepend(ops, operation, time_ms) ==
    IF HasKey(ops, operation)
    THEN [ops EXCEPT ![KeyIndex(ops, operation)].times = <<time_ms>> \o @]
    ELSE Append(ops, [op |-> operation, times |-> <<time_ms>>])

\* operations[operation].append(time_ms) on a defaultdict(list): a new key
\* goes last in the mapping's order.
defaultdict_append(ops, operation, time_ms) ==
    IF HasKey(ops, operation)
    THEN [ops EXCEPT ![KeyIndex(ops, operation)].times = Append(@, time_ms)]
    ELSE Append(ops, [op |-> operation, times |-> <<time_ms>>])

\* ------------------------------------------------------------ statistics
\* statistics.mean(times) as the exact fraction <<sum, count>>; it raises
\* StatisticsError on an empty list.
mean(times) == <<SumSeq(times), Len(times)>>

mean_raises(times) == times = <<>>

\* m1 < m2, m1 > m2 on fractions with positive denominators.
LessThan(m1, m2) == m1[1] * m2[2] < m2[1] * m1[2]

GreaterThan(m1, m2) == LessThan(m2, m1)

\* The fraction m against a whole number of milliseconds.
BelowMs(m, limit) == m[1] < limit * 10 * m[2]

AboveMs(m, limit) == m[1] > limit * 10 * m[2]

RECURSIVE SumSquares(_)
SumSquares(s) == IF s = <<>> THEN 0 ELSE s[1] * s[1] + SumSquares(Tail(s))

\* statistics.stdev(times): the sample variance it takes the root of is
\* sum((x - mean)^2) / (n - 1) = (n * sum(x^2) - sum(x)^2) / (n * (n - 1));
\* it raises StatisticsError for fewer than two values.  The result is kept
\* as that variance, in squared tenths of a millisecond.
stdev(times) ==
    LET n == Len(times)
    IN  IF n < 2 THEN [raises |-> TRUE, num |-> 0, den |-> 1]
        ELSE [raises |-> FALSE,
              num |-> n * SumSquares(times) - SumSeq(times) * SumSeq(times),
              den |-> n * (n - 1)]

\* A mutation of the guard: len(times) > 0.
calls_stdev_nonempty(times) == Len(times) > 0

\* len(times) > 1, the guard of stdev.
calls_stdev(times) == Len(times) > 1

\* std = stdev(times) if len(times) > 1 else 0
std_of(times) ==
    IF calls_stdev(times) THEN stdev(times)
    ELSE [raises |-> FALSE, num |-> 0, den |-> 1]

\* if std > 0
std_positive(std) == std.num > 0

\* ------------------------------------------------------------- formatting
\* A mutation of format_time: both comparisons are <=.
format_time_inclusive(num, den) ==
    IF num <= 10 * den
    THEN [unit |-> "us", decimals |-> 1, value |-> RoundHalfEven(num * 1000, den)]
    ELSE IF num <= 10000 * den
    THEN [unit |-> "ms", decimals |-> 2, value |-> RoundHalfEven(num * 10, den)]
    ELSE [unit |-> "s", decimals |-> 2, value |-> RoundHalfEven(num, 100 * den)]

\* format_time(ms) for ms = num / den tenths of a millisecond.  value is
\* the number printed, without its decimal point: 500.0 is 5000 with one
\* decimal, 1.50 is 150 with two.
format_time(num, den) ==
    IF num < 10 * den
    THEN [unit |-> "us", decimals |-> 1, value |-> RoundHalfEven(num * 1000, den)]
    ELSE IF num < 10000 * den
    THEN [unit |-> "ms", decimals |-> 2, value |-> RoundHalfEven(num * 10, den)]
    ELSE [unit |-> "s", decimals |-> 2, value |-> RoundHalfEven(num, 100 * den)]

get_performance_rating(m) ==
    IF BelowMs(m, 10) THEN "Excellent"
    ELSE IF BelowMs(m, 50) THEN "Good"
    ELSE IF BelowMs(m, 100) THEN "Moderate"
    ELSE IF BelowMs(m, 500) THEN "Slow"
    ELSE "Very Slow"

\* ---------------------------------------------------------------- sorting
\* A mutation of the sort: reverse=True is lost.
comes_first_ascending(x, y) == LessThan(mean(x.times), mean(y.times))

\* x has to come before y in sorted(..., key=mean, reverse=True).
comes_first(x, y) == GreaterThan(mean(x.times), mean(y.times))

\* x put into the sorted sequence s behind every item it does not have to
\* come before: the sort is stable, items of equal mean keep their order.
Insert(s, x) ==
    LET k == Cardinality({i \in 1..Len(s) : ~comes_first(x, s[i])})
    IN  SubSeq(s, 1, k) \o <<x>> \o SubSeq(s, k + 1, Len(s))

RECURSIVE sorted(_)
sorted(ops) ==
    IF ops = <<>> THEN <<>>
    ELSE Insert(sorted(SubSeq(ops, 1, Len(ops) - 1)), ops[Len(ops)])

\* ------------------------------------------------------------- the report
\* A mutation of the test: "operations is None", false of every mapping.
no_data_is_none(ops) == FALSE

\* not operations
no_data(ops) == ops = <<>>

\* The lines printed for the item ranked i: the block Calls / Avg / Total /
\* Range, and the StdDev line.  The StdDev line carries the variance
\* <<num, den>> of which the printed figure is the formatted root.
row_lines(i, item) ==
    LET times == item.times
        std == std_of(times)
    IN  <<[kind |-> "op", rank |-> i, operation |-> item.op,
           calls |-> Len(times),
           avg |-> format_time(SumSeq(times), Len(times)),
           rating |-> get_performance_rating(mean(times)),
           total |-> format_time(SumSeq(times), 1),
           lo |-> format_time(MinSeq(times), 1),
           hi |-> format_time(MaxSeq(times), 1)]>>
        \o (IF std_positive(std)
            THEN <<[kind |-> "stddev", operation |-> item.op,
                    variance |-> <<std.num, std.den>>]>>
            ELSE <<>>)

\* The loop over sorted_ops[:15], rows i..n: what it prints, whether it
\* raised, and the lists it passed to stdev.  A raise ends the loop.
RECURSIVE ranking(_, _, _)
ranking(s, i, n) ==
    IF i > n THEN [lines |-> <<>>, raised |-> FALSE, calls |-> <<>>]
    ELSE LET times == s[i].times
             args == IF calls_stdev(times) THEN <<times>> ELSE <<>>
         IN  IF std_of(times).raises
             THEN [lines |-> <<>>, raised |-> TRUE, calls |-> args]
             ELSE LET rest == ranking(s, i + 1, n)
                  IN  [lines |-> row_lines(i, s[i]) \o rest.lines,
                       raised |-> rest.raised,
                       calls |-> args \o rest.calls]

RECURSIVE total_operations(_)
total_operations(ops) ==
    IF ops = <<>> THEN 0 ELSE Len(ops[1].times) + total_operations(Tail(ops))

\* A mutation of total_time: the sum of the lengths, as in the line above it.
total_time_of_lengths(ops) == total_operations(ops)

RECURSIVE total_time(_)
total_time(ops) ==
    IF ops = <<>> THEN 0 ELSE SumSeq(ops[1].times) + total_time(Tail(ops))

\* A mutation of the test: mean(times) >= 100.
is_bottleneck_inclusive(item) == ~BelowMs(mean(item.times), BottleneckMs)

\* mean(times) > 100
is_bottleneck(item) == AboveMs(mean(item.times), BottleneckMs)

is_fast(item) == BelowMs(mean(item.times), FastMs)

\* (total / total_time) * 100 as printed by .1f, in tenths of a percent.
percent(total, all) == RoundHalfEven(total * 1000, all)

bottleneck_line(item, all) ==
    [kind |-> "bottleneck", operation |-> item.op,
     avg |-> format_time(SumSeq(item.times), Len(item.times)),
     total |-> format_time(SumSeq(item.times), 1),
     percent |-> percent(SumSeq(item.times), all)]

\* The bottleneck and fast-operation sections.
bottleneck_section(s, all) ==
    LET bottlenecks == SelectSeq(s, is_bottleneck)
        listed == SubSeq(bottlenecks, 1, Min(BottleneckLimit, Len(bottlenecks)))
        fast_ops == SelectSeq(s, is_fast)
    IN  IF bottlenecks # <<>> /\ all = 0
        THEN [lines |-> <<[kind |-> "header", text |-> "bottlenecks"],
                          [kind |-> "caption", text |-> "over 100ms"]>>,
              raised |-> TRUE]
        ELSE [lines |->
                 <<[kind |-> "header", text |-> "bottlenecks"]>>
                 \o (IF bottlenecks # <<>>
                     THEN <<[kind |-> "caption", text |-> "over 100ms"]>>
                          \o [i \in 1..Len(listed) |-> bottleneck_line(listed[i], all)]
                     ELSE <<[kind |-> "no_bottlenecks"]>>)
                 \o (IF fast_ops # <<>>
                     THEN <<[kind |-> "fast", count |-> Len(fast_ops)]>>
                     ELSE <<>>),
              raised |-> FALSE]

\* The overall statistics and what follows them.
overall_section(ops, s) ==
    LET calls == total_operations(ops)
        all == total_time(ops)
        head == <<[kind |-> "header", text |-> "overall"],
                  [kind |-> "totals", total_operations |-> calls,
                   unique_operations |-> Len(ops),
                   total_time |-> format_time(all, 1)]>>
    IN  IF calls = 0
        THEN [lines |-> head, raised |-> TRUE]
        ELSE LET rest == bottleneck_section(s, all)
             IN  [lines |-> head
                            \o <<[kind |-> "avg_per_call",
                                  value |-> format_time(all, calls)]>>
                            \o rest.lines,
                  raised |-> rest.raised]

\* analyze_operations(operations): the lines it prints, whether it raised
\* (StatisticsError, ZeroDivisionError), its sorted_ops and its calls of stdev.
analyze_operations(ops) ==
    IF no_data(ops)
    THEN [lines |-> <<[kind |-> "no_data"]>>, raised |-> FALSE,
          sorted_ops |-> <<>>, calls |-> <<>>]
    ELSE IF \E i \in 1..Len(ops) : mean_raises(ops[i].times)
    THEN [lines |-> <<[kind |-> "header", text |-> "analysis"]>>, raised |-> TRUE,
          sorted_ops |-> <<>>, calls |-> <<>>]
    ELSE LET s == sorted(ops)
             rk == ranking(s, 1, Min(TopN, Len(s)))
             top == <<[kind |-> "header", text |-> "analysis"],
                      [kind |-> "caption", text |-> "top operations"]>>
         IN  IF rk.raised
             THEN [lines |-> top \o rk.lines, raised |-> TRUE,
                   sorted_ops |-> s, calls |-> rk.calls]
             ELSE LET rest == overall_section(ops, s)
                  IN  [lines |-> top \o rk.lines \o rest.lines,
                       raised |-> rest.raised,
                       sorted_ops |-> s, calls |-> rk.calls]

\* ------------------------------------------------------------- the inputs
Names == {<<"a">>, <<"b">>, <<"c">>}

\* 0, 0.5, 200 and 300 ms.
ValidTexts == {<<"0">>, <<"0", ".", "5">>, <<"2", "0", "0">>, <<"3", "0", "0">>}

\* Texts [0-9.]+ accepts and float() does not.
BadTexts == {<<"1", ".", "2", ".", "3">>, <<".">>}

CompletedLine(name, text) ==
    <<"Completed: ">> \o name \o <<" in ">> \o text \o <<"ms">>

\* A line without a match, and a line whose name holds " in ".
OtherLines == {<<"Completed: ", "a", " in ", "5">>,
               <<"Completed: ", "a", " in ", "b", " in ", "2", "0", "0", "ms">>}

LogLines ==
    {CompletedLine(n, t) : n \in Names, t \in ValidTexts}
    \cup {CompletedLine(<<"a">>, t) : t \in BadTexts}
    \cup OtherLines

Banner == <<[kind |-> "banner"]>>

\* ------------------------------------------------------------ the program
\* main up to the call of parse_logs: the banner is printed, the log is read.
Init ==
    /\ pc = "parse"
    /\ log = <<>>
    /\ operations = <<>>
    /\ sorted_ops = <<>>
    /\ stdev_args = <<>>
    /\ out = Banner
    /\ ms = <<0, 1>>

\* One iteration of the loop of parse_logs.  A ValueError of float() leaves
\* parse_logs and main: the traceback ends the run.
ReadLine(line) ==
    /\ pc = "parse"
    /\ Len(log) < MaxLines
    /\ log' = Append(log, line)
    /\ LET m == re_search(line)
       IN  IF ~m.matched
           THEN UNCHANGED <<pc, operations>>
           ELSE IF float_raises(m.num)
           THEN pc' = "crashed" /\ UNCHANGED operations
           ELSE /\ operations' = defaultdict_append(operations, m.operation, float(m.num))
                /\ UNCHANGED pc
    /\ UNCHANGED <<sorted_ops, stdev_args, out, ms>>

\* The loop is over, parse_logs returns operations.
ReturnOperations ==
    /\ pc = "parse"
    /\ pc' = "analyze"
    /\ UNCHANGED <<log, operations, sorted_ops, stdev_args, out, ms>>

\* analyze_operations(operations).
Analyze ==
    /\ pc = "analyze"
    /\ \E r \in {analyze_operations(operations)} :
           /\ out' = out \o r.lines
           /\ sorted_ops' = r.sorted_ops
           /\ stdev_args' = r.calls
           /\ pc' = IF r.raised THEN "crashed" ELSE "analyzed"
    /\ UNCHANGED <<log, operations, ms>>

\* The last print of main.
Complete ==
    /\ pc = "analyzed"
    /\ out' = Append(out, [kind |-> "complete"])
    /\ pc' = "done"
    /\ UNCHANGED <<log, operations, sorted_ops, stdev_args, ms>>

Next ==
    \/ \E line \in LogLines : ReadLine(line)
    \/ ReturnOperations
    \/ Analyze
    \/ Complete

Spec == Init /\ [][Next]_vars

\* ------------------------------------- analyze_operations on a mapping
OpName(i) == <<"op", CHOOSE d \in Digits : DigitVal(d) = i>>

\* Duration lists of mean 0.5, 100, 200, 300 and 200 ms.
AnalyzeLists == {<<5>>, <<1000>>, <<2000>>, <<3000>>, <<1000, 3000>>}

InitAnalyze ==
    /\ pc = "analyze"
    /\ log = <<>>
    /\ \E k \in 0..MaxOps : \E f \in [1..k -> AnalyzeLists] :
          operations = [i \in 1..k |-> [op |-> OpName(i), times |-> f[i]]]
    /\ sorted_ops = <<>>
    /\ stdev_args = <<>>
    /\ out = <<>>
    /\ ms = <<0, 1>>

NextAnalyze == Analyze

SpecAnalyze == InitAnalyze /\ [][NextAnalyze]_vars

\* --------------------------------------------- format_time on a duration
InitFormat ==
    /\ pc = "format"
    /\ log = <<>>
    /\ operations = <<>>
    /\ sorted_ops = <<>>
    /\ stdev_args = <<>>
    /\ out = <<>>
    /\ ms \in (0..MaxFormatTenths) \X (1..MaxFormatDen)

Format ==
    /\ pc = "format"
    /\ out' = <<format_time(ms[1], ms[2])>>
    /\ pc' = "formatted"
    /\ UNCHANGED <<log, operations, sorted_ops, stdev_args, ms>>

NextFormat == Format

SpecFormat == InitFormat /\ [][NextFormat]_vars

\* ------------------------------------------------------------ the claims
OfKind(k) == SelectSeq(out, LAMBDA r : r.kind = k)

\* A text of digits and dots that is no float literal: several dots, or
\* dots alone ("1.2.3", ".").
NotFloatLiteral(text) ==
    LET dots == SelectSeq(text, LAMBDA c : c = ".")
    IN  Len(dots) > 1 \/ Len(dots) = Len(text)

\* What the pattern finds in each line of the log.
RECURSIVE Found(_)
Found(lg) ==
    IF lg = <<>> THEN <<>>
    ELSE Append(Found(SubSeq(lg, 1, Len(lg) - 1)), re_search(lg[Len(lg)]))

\* The line matches and its numeric text is no float literal.
Bad(m) == m.matched /\ NotFloatLiteral(m.num)

\* The durations of the matches of ms that carry the name given, in order.
Expected(found, name) ==
    LET hits == SelectSeq(found, LAMBDA m : m.matched /\ ~Bad(m) /\ m.operation = name)
    IN  [k \in 1..Len(hits) |-> float(hits[k].num)]

\* The only raise of a run is the ValueError of the last line's number.
CrashOnlyAtBadLine ==
    pc = "crashed" => log # <<>> /\ Bad(re_search(log[Len(log)]))

Reported == pc \in {"analyzed", "done"}

\* C1: every key of the mapping holds exactly the durations of the lines
\* that match with its name, in log order, one per line; a line without a
\* match adds nothing and raises nothing.  (A line whose number float()
\* refuses ends the loop: it is the last one and adds nothing.  The log and
\* the mapping are those of the loop and of the return of parse_logs.)
C1_DurationsFollowLog ==
    /\ pc \in {"parse", "analyze", "crashed"} =>
          \A found \in {Found(log)} :
              /\ \A i \in 1..Len(operations) :
                    /\ operations[i].times = Expected(found, operations[i].op)
                    /\ operations[i].times # <<>>
              /\ \A i, j \in 1..Len(operations) :
                    operations[i].op = operations[j].op => i = j
              /\ \A k \in 1..Len(found) :
                    found[k].matched /\ ~Bad(found[k])
                        => HasKey(operations, found[k].operation)
              /\ \A k \in 1..(Len(found) - 1) : ~Bad(found[k])
    /\ CrashOnlyAtBadLine

C1_Witness ==
    /\ pc = "analyze"
    /\ \E k \in 1..Len(log) : ~re_search(log[k]).matched
    /\ \E i \in 1..Len(operations) :
          Len(operations[i].times) = 2 /\ operations[i].times[1] # operations[i].times[2]

NoMatchingLine == \A k \in 1..Len(log) : ~re_search(log[k]).matched

\* C2: a log without a matching line gives the empty mapping, the report is
\* the no-data message alone, nothing raises and the run goes on to its
\* last print.
C2_NoDataReported ==
    NoMatchingLine =>
        /\ operations = <<>>
        /\ pc # "crashed"
        /\ pc \in {"parse", "analyze"} => out = Banner
        /\ pc = "analyzed" => out = Banner \o <<[kind |-> "no_data"]>> /\ ENABLED Complete
        /\ pc = "done" => out = Banner \o <<[kind |-> "no_data"], [kind |-> "complete"]>>

C2_Witness ==
    /\ pc = "done"
    /\ NoMatchingLine
    /\ \E k \in 1..Len(log) : log[k] # <<>>

\* C3: sorted_ops is a permutation of the mapping's items, no item has a
\* smaller mean than the one after it, and the ranking is printed in that
\* order.
C3_SortedByDescendingMean ==
    Reported /\ operations # <<>> =>
        /\ Len(sorted_ops) = Len(operations)
        /\ \A i \in 1..Len(operations) :
              \E j \in 1..Len(sorted_ops) : sorted_ops[j] = operations[i]
        /\ \A i \in 1..(Len(sorted_ops) - 1) :
              SumSeq(sorted_ops[i].times) * Len(sorted_ops[i + 1].times)
                 >= SumSeq(sorted_ops[i + 1].times) * Len(sorted_ops[i].times)
        /\ LET rows == OfKind("op")
           IN  /\ Len(rows) = Min(TopN, Len(sorted_ops))
               /\ \A i \in 1..Len(rows) :
                     rows[i].operation = sorted_ops[i].op /\ rows[i].rank = i

C3_Witness ==
    /\ pc = "analyzed"
    /\ Len(sorted_ops) = 3
    /\ sorted_ops[1] = operations[3]
    /\ sorted_ops[3] = operations[1]

HasStdDevLine(operation) ==
    \E k \in 1..Len(out) : out[k].kind = "stddev" /\ out[k].operation = operation

HasRow(operation) ==
    \E k \in 1..Len(out) : out[k].kind = "op" /\ out[k].operation = operation

\* C4: stdev is never called with fewer than two durations; an operation
\* with one duration has the standard deviation zero and no StdDev line,
\* and nothing raises in the report.
C4_NoStdevOfSingle ==
    /\ \A k \in 1..Len(stdev_args) : Len(stdev_args[k]) >= 2
    /\ Reported =>
          \A i \in 1..Len(operations) :
              Len(operations[i].times) = 1 =>
                  /\ std_of(operations[i].times) = [raises |-> FALSE, num |-> 0, den |-> 1]
                  /\ ~HasStdDevLine(operations[i].op)
    /\ CrashOnlyAtBadLine

C4_Witness ==
    /\ pc = "analyzed"
    /\ \E i \in 1..Len(operations) :
          Len(operations[i].times) = 1 /\ HasRow(operations[i].op)
    /\ \E i \in 1..Len(operations) : HasStdDevLine(operations[i].op)

RECURSIVE SumPercent(_)
SumPercent(ls) == IF ls = <<>> THEN 0 ELSE ls[1].percent + SumPercent(Tail(ls))

\* The sum of the durations of the operations the lines ls name.
RECURSIVE SumTotals(_)
SumTotals(ls) ==
    IF ls = <<>> THEN 0
    ELSE SumSeq(operations[KeyIndex(operations, ls[1].operation)].times)
         + SumTotals(Tail(ls))

RECURSIVE SumAll(_)
SumAll(ops) == IF ops = <<>> THEN 0 ELSE SumSeq(ops[1].times) + SumAll(Tail(ops))

\* C5 as stated: the percentages printed for the listed bottlenecks, in
\* tenths of a percent, sum to at most 100.0.
C5_PrintedPercentagesAtMost100 ==
    Reported => SumPercent(OfKind("bottleneck")) <= 1000

\* C5 as amended: the shares of the listed bottlenecks sum to at most the
\* total time; each printed percentage is its share rounded to one decimal,
\* so the printed ones sum to at most 100 plus 0.05 for each line.
C5_PrintedPercentagesBound ==
    Reported =>
        LET ls == OfKind("bottleneck")
        IN  /\ SumTotals(ls) <= SumAll(operations)
            /\ 2 * SumPercent(ls) <= 2000 + Len(ls)
            /\ \A k \in 1..Len(ls) :
                  LET t == SumSeq(operations[KeyIndex(operations, ls[k].operation)].times)
                      d == ls[k].percent * SumAll(operations) - 1000 * t
                  IN  2 * d <= SumAll(operations) /\ -2 * d <= SumAll(operations)

C5_Witness ==
    /\ pc = "analyzed"
    /\ Len(OfKind("bottleneck")) = 3
    /\ SumPercent(OfKind("bottleneck")) = 1001

\* C6 as stated: every operation of the ranking with at least two
\* durations has a StdDev line.
C6_StdDevLineWhenDefined ==
    Reported =>
        \A i \in 1..Min(TopN, Len(sorted_ops)) :
            Len(sorted_ops[i].times) >= 2 => HasStdDevLine(sorted_ops[i].op)

\* |v - p / q| <= 1/2
Nearest(v, p, q) == 2 * (v * q - p) <= q /\ 2 * (p - v * q) <= q

\* C7: the duration alone selects the unit: microseconds below 1 ms (the
\* figure is d * 1000), milliseconds below 1000 ms (d), seconds from there
\* (d / 1000); 0.5 ms prints as 500.0 us and 1500 ms as 1.50 s.
C7_UnitByDuration ==
    pc = "formatted" =>
        LET num == ms[1]
            den == ms[2]
            r == out[1]
        IN  /\ num < 10 * den =>
                  r.unit = "us" /\ r.decimals = 1 /\ Nearest(r.value, num * 1000, den)
            /\ num >= 10 * den /\ num < 10000 * den =>
                  r.unit = "ms" /\ r.decimals = 2 /\ Nearest(r.value, num * 10, den)
            /\ num >= 10000 * den =>
                  r.unit = "s" /\ r.decimals = 2 /\ Nearest(r.value, num, 100 * den)
            /\ ms = <<5, 1>> => r = [unit |-> "us", decimals |-> 1, value |-> 5000]
            /\ ms = <<15000, 1>> => r = [unit |-> "s", decimals |-> 2, value |-> 150]

C7_Witness ==
    /\ pc = "formatted"
    /\ ms \in {<<10, 1>>, <<10000, 1>>}
    /\ out[1].unit \in {"ms", "s"}

\* A line without a "." has no number that float() refuses.
HasDot(line) == \E i \in 1..Len(line) : line[i] = "."

\* C8: a matching line whose number is no float literal ends the run at
\* that line: it is the last line read, nothing of the lines before it is
\* reported and the last print of main never happens.
C8_BadNumberAborts ==
    LET bad == {k \in 1..Len(log) : HasDot(log[k]) /\ Bad(re_search(log[k]))}
    IN  bad # {} =>
            /\ pc = "crashed"
            /\ bad = {Len(log)}
            /\ out = Banner
            /\ sorted_ops = <<>>
            /\ ~ENABLED Next

C8_Witness ==
    /\ pc = "crashed"
    /\ operations # <<>>
    /\ Len(log) >= 2

\* mean > 100 ms, on the durations in tenths.
MeanOver100(item) == SumSeq(item.times) > 1000 * Len(item.times)

\* C9: with k operations of mean over 100 ms, these are the first k of
\* sorted_ops, the bottleneck lines name the first min(5, k) of them in
\* order, an operation of mean 100 ms is not listed, and the
\* no-bottlenecks message appears exactly when k = 0.
C9_BottlenecksArePrefix ==
    pc = "analyzed" /\ operations # <<>> =>
        LET k == Cardinality({i \in 1..Len(sorted_ops) : MeanOver100(sorted_ops[i])})
            ls == OfKind("bottleneck")
        IN  /\ \A i \in 1..Len(sorted_ops) : MeanOver100(sorted_ops[i]) <=> i <= k
            /\ Len(ls) = Min(5, k)
            /\ \A i \in 1..Len(ls) : ls[i].operation = sorted_ops[i].op
            /\ \A i \in 1..Len(sorted_ops) :
                  SumSeq(sorted_ops[i].times) = 1000 * Len(sorted_ops[i].times) =>
                      \A j \in 1..Len(ls) : ls[j].operation # sorted_ops[i].op
            /\ (k = 0) <=> (OfKind("no_bottlenecks") # <<>>)

C9_Witness ==
    /\ pc = "analyzed"
    /\ Cardinality({i \in 1..Len(sorted_ops) : MeanOver100(sorted_ops[i])}) = 6
    /\ Len(OfKind("bottleneck")) = 5

\* C10: every key has a duration; when the overall statistics are printed
\* the call count is at least 1 and is the number of matching lines; when
\* a bottleneck percentage is printed the total time is positive; neither
\* division raises.
C10_NoDivisionByZero ==
    /\ \A i \in 1..Len(operations) : Len(operations[i].times) >= 1
    /\ pc = "analyzed" /\ operations # <<>> =>
          /\ Len(OfKind("totals")) = 1
          /\ Len(OfKind("avg_per_call")) = 1
          /\ OfKind("totals")[1].total_operations >= 1
          /\ OfKind("totals")[1].total_operations
                = Cardinality({k \in 1..Len(log) : re_search(log[k]).matched})
    /\ OfKind("bottleneck") # <<>> => SumAll(operations) > 0
    /\ CrashOnlyAtBadLine

C10_Witness ==
    /\ pc = "analyzed"
    /\ OfKind("bottleneck") # <<>>
    /\ \E i \in 1..Len(operations) : SumSeq(operations[i].times) = 0
    /\ Len(log) = 3

====
